---- MODULE Spec2Model ----
(***************************************************************************)
(* Session management of luxon (luxon/core/session.py): the Session        *)
(* mapping, the SessionFile backend (one pickle file per session id,       *)
(* guarded by the module-level threading.Lock and by flock) and the        *)
(* SessionRedis backend (one key per session id with a TTL).               *)
(*                                                                         *)
(* Spec        one caller at a time; every method of Session is one action *)
(* SpecThreads several threads of one process calling the SessionFile      *)
(*             methods, one statement per step                             *)
(***************************************************************************)
EXTENDS Integers, Sequences, FiniteSets, TLC

\* ------------------------------------------------------------------ bounds
MaxTime == 3
Expire == 2

\* keys and values of the session dicts; keys are pickled in ascending order
Keys == {1, 2}
Values == {1, 2}
SIDs == {"s1", "s2"}
Threads == {"t1", "t2"}
Backends == {"none", "file", "redis"}

\* Python's None, the default of Session.get's parameter d
None == 0

VARIABLES now, backend, file, redis, sess, last, lock, pc, tsess, hnd, flk, terr,
          rem

vars == <<now, backend, file, redis, sess, last, lock, pc, tsess, hnd, flk, terr,
          rem>>
seqvars == <<now, backend, file, redis, sess, last>>
thrvars == <<lock, pc, tsess, hnd, flk, terr, rem>>

\* ------------------------------------------------------------ dictionaries
\* a Session's _session dict: a function from some of the keys to values
EmptyDict == [k \in {} |-> 0]

Dicts == UNION {[D -> Values] : D \in SUBSET Keys}

DictLen(d) == Cardinality(DOMAIN d)

\* a plausible slip: only the keys that d lacks are kept
DictUpdateNewOnly(d, other) ==
    [k \in (DOMAIN other) \ (DOMAIN d) |-> other[k]]

\* dict.update(other): entries of other override the ones of d
DictUpdate(d, other) ==
    [k \in (DOMAIN d) \cup (DOMAIN other) |->
        IF k \in DOMAIN other THEN other[k] ELSE d[k]]

DictSet(d, k, v) == [x \in (DOMAIN d) \cup {k} |-> IF x = k THEN v ELSE d[x]]

DictDel(d, k) == [x \in (DOMAIN d) \ {k} |-> d[x]]

\* ------------------------------------------------------------------ pickle
\* A pickle of a dict is the stream of its (key, value) items followed by
\* the STOP opcode.  A stream that lacks the STOP opcode does not unpickle.
STOP == <<0, 0>>

RECURSIVE Items(_)
Items(d) ==
    IF DOMAIN d = {} THEN <<>>
    ELSE LET k == CHOOSE x \in DOMAIN d : \A y \in DOMAIN d : x <= y
         IN  <<(<<k, d[k]>>)>> \o Items(DictDel(d, k))

\* a plausible slip: only the first item is written
dumpsFirstItem(d) ==
    (IF Items(d) = <<>> THEN <<>> ELSE <<Head(Items(d))>>) \o <<STOP>>

dumps(d) == Items(d) \o <<STOP>>

IsPickle(s) ==
    /\ Len(s) >= 1
    /\ s[Len(s)] = STOP
    /\ \A i \in 1..(Len(s) - 1) : s[i] # STOP

RECURSIVE BuildDict(_, _)
BuildDict(s, n) ==
    IF n = 0 THEN EmptyDict
    ELSE DictSet(BuildDict(s, n - 1), s[n][1], s[n][2])

\* a plausible slip: the last item is not read
loadsDropLast(s) == BuildDict(s, IF Len(s) > 1 THEN Len(s) - 2 ELSE 0)

\* pickle.loads of a stream for which IsPickle holds
loads(s) == BuildDict(s, Len(s) - 1)

\* ----------------------------------------------------------- stored state
NoFile == [exists |-> FALSE, content |-> <<>>, mtime |-> 0]
NoKey == [exists |-> FALSE, val |-> <<>>, ttl |-> -1]

\* the result of a backend method: the dict afterwards and the exception
Ok(d) == [data |-> d, err |-> "none"]
Raise(d, e) == [data |-> d, err |-> e]

\* what the caller saw of the last call: the method, its arguments, what it
\* returned or raised, for save and load the time of the call, and whether the
\* call follows the call it is paired with (a clear after a clear, a load
\* after a load, a construction after a save of the same session id)
Done(op, e, f) == [op |-> op, key |-> 0, dflt |-> None, ret |-> None, err |-> e,
                   at |-> IF op \in {"save", "load"} THEN now ELSE 0,
                   follows |-> f]

\* ------------------------------------------------------------- SessionFile
\* load(), lines 158-163: the file is older than expire seconds
Expired(f, ts) == ts - f.mtime > Expire

\* a plausible slip: load always clears the dict before it reads the file
FileLoadReplaces(f, data, ts) ==
    IF f.exists
    THEN IF IsPickle(f.content) THEN Ok(loads(f.content))
         ELSE Raise(EmptyDict, "UnpicklingError")
    ELSE Ok(EmptyDict)

\* a plausible slip: load without the else branch of line 173
FileLoadKeepsWhenAbsent(f, data, ts) ==
    LET d1 == IF f.exists /\ Expired(f, ts) THEN EmptyDict ELSE data
    IN  IF f.exists
        THEN IF IsPickle(f.content)
             THEN Ok(DictUpdate(d1, loads(f.content)))
             ELSE Raise(d1, "UnpicklingError")
        ELSE Ok(data)

\* SessionFile.load with the process lock held
FileLoad(f, data, ts) ==
    LET d1 == IF f.exists /\ Expired(f, ts) THEN EmptyDict ELSE data
    IN  IF f.exists
        THEN IF IsPickle(f.content)
             THEN Ok(DictUpdate(d1, loads(f.content)))
             ELSE Raise(d1, "UnpicklingError")
        ELSE Ok(EmptyDict)

\* a plausible slip: the file is opened for appending
FileSaveAppend(f, data, ts) ==
    [exists |-> TRUE, content |-> f.content \o dumps(data), mtime |-> ts]

\* a plausible slip: SessionFile.save with SessionRedis.save's empty check
FileSaveSkipsEmpty(f, data, ts) ==
    IF DictLen(data) > 0
    THEN [exists |-> TRUE, content |-> dumps(data), mtime |-> ts]
    ELSE f

\* SessionFile.save with the process lock held: open(..., 'wb') truncates or
\* creates the file, pickle.dump writes the whole dict
FileSave(f, data, ts) == [exists |-> TRUE, content |-> dumps(data), mtime |-> ts]

\* os.unlink raises when there is no such file
Unlink(f) ==
    IF f.exists THEN [file |-> NoFile, err |-> "none"]
    ELSE [file |-> f, err |-> "FileNotFoundError"]

\* a plausible slip: clear without the try/except around unlink
FileClearNoCatch(f) == [file |-> Unlink(f).file, err |-> Unlink(f).err]

\* SessionFile.clear with the process lock held: whatever unlink raises is
\* swallowed
FileClear(f) == [file |-> Unlink(f).file, err |-> "none"]

\* ------------------------------------------------------------ SessionRedis
\* a plausible slip: SessionRedis.load with SessionFile.load's else branch
RedisLoadClearsWhenAbsent(r, data) ==
    IF r.exists
    THEN IF IsPickle(r.val) THEN Ok(DictUpdate(data, loads(r.val)))
         ELSE Raise(data, "UnpicklingError")
    ELSE Ok(EmptyDict)

RedisLoad(r, data) ==
    IF r.exists
    THEN IF IsPickle(r.val) THEN Ok(DictUpdate(data, loads(r.val)))
         ELSE Raise(data, "UnpicklingError")
    ELSE Ok(data)

\* redis SET stores the value and drops the key's TTL
RedisSet(r, v) == [exists |-> TRUE, val |-> v, ttl |-> -1]

\* a plausible slip: the TTL is never set
RedisExpireForgotten(r, secs) == r

\* redis EXPIRE sets the TTL of an existing key
RedisExpire(r, secs) == IF r.exists THEN [r EXCEPT !.ttl = secs] ELSE r

\* a plausible slip: save without the length check
RedisSaveAlways(data) == TRUE

\* SessionRedis.save, line 131: nothing is written for an empty dict
RedisSaveWrites(data) == DictLen(data) > 0

RedisSave(r, data) ==
    IF RedisSaveWrites(data) THEN RedisExpire(RedisSet(r, dumps(data)), Expire)
    ELSE r

\* redis DEL: deleting an absent key is not an error
RedisDelete(r) == NoKey

\* the server's clock: TTLs count down and a key whose TTL runs out is gone
RedisAge(r) ==
    IF r.exists /\ r.ttl > 0
    THEN IF r.ttl = 1 THEN NoKey ELSE [r EXCEPT !.ttl = r.ttl - 1]
    ELSE r

\* ----------------------------------------------------------------- Session
Free == "free"

\* Session.load: delegates when the backend has a load method
SessionLoad(b, sid, data) ==
    CASE b = "file" -> FileLoad(file[sid], data, now)
      [] b = "redis" -> RedisLoad(redis[sid], data)
      [] OTHER -> Ok(data)

\* Session.__init__: an empty dict, the backend bound to it, then load()
Construct(sid) ==
    /\ lock = Free
    /\ LET r == SessionLoad(backend, sid, EmptyDict)
       IN  /\ sess' = [sid |-> sid, data |-> r.data]
           /\ last' = Done("construct", r.err,
                            last.op = "save" /\ sess.sid = sid)
    /\ UNCHANGED <<now, backend, file, redis>>
    /\ UNCHANGED thrvars

\* a plausible slip: load removes the file it finds expired
LoadUnlinksExpired ==
    /\ lock = Free
    /\ LET r == SessionLoad(backend, sess.sid, sess.data)
       IN  /\ sess' = [sess EXCEPT !.data = r.data]
           /\ last' = Done("load", r.err, last.op = "load")
    /\ file' = IF backend = "file" /\ file[sess.sid].exists
                  /\ Expired(file[sess.sid], now)
               THEN [file EXCEPT ![sess.sid] = NoFile]
               ELSE file
    /\ UNCHANGED <<now, backend, redis>>
    /\ UNCHANGED thrvars

Load ==
    /\ lock = Free
    /\ LET r == SessionLoad(backend, sess.sid, sess.data)
       IN  /\ sess' = [sess EXCEPT !.data = r.data]
           /\ last' = Done("load", r.err, last.op = "load")
    /\ UNCHANGED <<now, backend, file, redis>>
    /\ UNCHANGED thrvars

Save ==
    /\ lock = Free
    /\ file' = IF backend = "file"
               THEN [file EXCEPT ![sess.sid] = FileSave(@, sess.data, now)]
               ELSE file
    /\ redis' = IF backend = "redis"
                THEN [redis EXCEPT ![sess.sid] = RedisSave(@, sess.data)]
                ELSE redis
    /\ last' = Done("save", "none", FALSE)
    /\ UNCHANGED <<now, backend, sess>>
    /\ UNCHANGED thrvars

\* a plausible slip: clear empties the dict itself
ClearsAlways(b) == TRUE

\* Session.clear: delegates when the backend has a clear method
ClearsData(b) == b # "none"

Clear ==
    /\ lock = Free
    /\ sess' = IF ClearsData(backend) THEN [sess EXCEPT !.data = EmptyDict]
               ELSE sess
    /\ file' = IF backend = "file"
               THEN [file EXCEPT ![sess.sid] = FileClear(@).file]
               ELSE file
    /\ redis' = IF backend = "redis"
                THEN [redis EXCEPT ![sess.sid] = RedisDelete(@)]
                ELSE redis
    /\ last' = Done("clear",
                     IF backend = "file" THEN FileClear(file[sess.sid]).err
                     ELSE "none",
                     last.op = "clear")
    /\ UNCHANGED <<now, backend>>
    /\ UNCHANGED thrvars

SetItem(k, v) ==
    /\ sess' = [sess EXCEPT !.data = DictSet(@, k, v)]
    /\ last' = Done("setitem", "none", FALSE)
    /\ UNCHANGED <<now, backend, file, redis>>
    /\ UNCHANGED thrvars

\* __delitem__: a missing key is not an error
DelItem(k) ==
    /\ sess' = [sess EXCEPT !.data = DictDel(@, k)]
    /\ last' = Done("delitem", "none", FALSE)
    /\ UNCHANGED <<now, backend, file, redis>>
    /\ UNCHANGED thrvars

\* a plausible slip: get implemented as an item read
DictGetStrict(data, k, d) ==
    IF k \in DOMAIN data THEN [ret |-> data[k], err |-> "none"]
    ELSE [ret |-> None, err |-> "KeyError"]

\* dict.get(k, d)
DictGet(data, k, d) ==
    IF k \in DOMAIN data THEN [ret |-> data[k], err |-> "none"]
    ELSE [ret |-> d, err |-> "none"]

\* dict[k]
DictItem(data, k) ==
    IF k \in DOMAIN data THEN [ret |-> data[k], err |-> "none"]
    ELSE [ret |-> None, err |-> "KeyError"]

Get(k, d) ==
    /\ last' = [op |-> "get", key |-> k, dflt |-> d,
                ret |-> DictGet(sess.data, k, d).ret,
                err |-> DictGet(sess.data, k, d).err, at |-> 0,
                follows |-> FALSE]
    /\ UNCHANGED <<now, backend, file, redis, sess>>
    /\ UNCHANGED thrvars

GetItem(k) ==
    /\ last' = [op |-> "getitem", key |-> k, dflt |-> None,
                ret |-> DictItem(sess.data, k).ret,
                err |-> DictItem(sess.data, k).err, at |-> 0,
                follows |-> FALSE]
    /\ UNCHANGED <<now, backend, file, redis, sess>>
    /\ UNCHANGED thrvars

\* a second passes: the wall clock and the cache server's TTLs move on
Tick ==
    /\ now < MaxTime
    /\ now' = now + 1
    /\ redis' = [s \in SIDs |-> RedisAge(redis[s])]
    /\ UNCHANGED <<backend, file, sess, last>>
    /\ UNCHANGED thrvars

NoHandle == [sid |-> "", pos |-> 0]

\* another process of the application, between two calls
RemoteIdle == [pc |-> "idle", sid |-> "", pos |-> 0, data |-> EmptyDict]

\* in Spec no thread of the pool runs
ThreadsInit ==
    /\ lock = Free
    /\ pc = [t \in Threads |-> "idle"]
    /\ tsess = [t \in Threads |-> [sid |-> "s1", data |-> EmptyDict]]
    /\ hnd = [t \in Threads |-> NoHandle]
    /\ flk = [s \in SIDs |-> Free]
    /\ terr = [t \in Threads |-> "none"]
    /\ rem = RemoteIdle

\* the application is configured with one backend; nothing is stored yet and
\* the first Session has just been constructed
Init ==
    /\ now = 0
    /\ backend \in Backends
    /\ file = [s \in SIDs |-> NoFile]
    /\ redis = [s \in SIDs |-> NoKey]
    /\ \E s \in SIDs : sess = [sid |-> s, data |-> EmptyDict]
    /\ last = [op |-> "construct", key |-> 0, dflt |-> None, ret |-> None,
               err |-> "none", at |-> 0, follows |-> FALSE]
    /\ ThreadsInit

Next ==
    \/ \E s \in SIDs : Construct(s)
    \/ Load
    \/ Save
    \/ Clear
    \/ \E k \in Keys, v \in Values : SetItem(k, v)
    \/ \E k \in Keys : DelItem(k)
    \/ \E k \in Keys, d \in {None} \cup Values : Get(k, d)
    \/ \E k \in Keys : GetItem(k)
    \/ Tick

Spec == Init /\ [][Next]_vars


\* ================================================= threads of one process
\* Each thread owns one Session over a SessionFile backend and calls its
\* methods; a step is one statement of SessionFile.load, save or clear.
sharedvars == <<now, backend, redis, sess, last, rem>>

Goto(t, l) == pc' = [pc EXCEPT ![t] = l]
SetData(t, d) == tsess' = [tsess EXCEPT ![t].data = d]
ThrowTo(t, e, l) == terr' = [terr EXCEPT ![t] = e] /\ Goto(t, l)
Path(t) == tsess[t].sid

\* file.write at the handle's position
WriteAt(content, pos, item) ==
    [i \in 1..(IF pos > Len(content) THEN pos ELSE Len(content)) |->
        IF i = pos THEN item
        ELSE IF i <= Len(content) THEN content[i] ELSE <<-1, -1>>]

\* __setitem__ between two calls
TSetItem(t, k, v) ==
    /\ pc[t] = "idle"
    /\ SetData(t, DictSet(tsess[t].data, k, v))
    /\ UNCHANGED <<lock, pc, hnd, flk, terr, file>>
    /\ UNCHANGED sharedvars

\* the thread calls load(), save() or clear() of its SessionFile
Call(t, op) ==
    /\ pc[t] = "idle"
    /\ op \in {"ld", "sv", "cl"}
    /\ pc' = [pc EXCEPT ![t] = op \o "_acquire"]
    /\ terr' = [terr EXCEPT ![t] = "none"]
    /\ UNCHANGED <<lock, tsess, hnd, flk, file>>
    /\ UNCHANGED sharedvars

\* a plausible slip: the lock is taken without waiting for it
LockNotAwaited == TRUE

\* threading.Lock.acquire() returns once nobody holds the lock
LockAvailable == lock = Free

\* lock.acquire(), lines 156, 179, 193
Acquire(t) ==
    /\ pc[t] \in {"ld_acquire", "sv_acquire", "cl_acquire"}
    /\ LockAvailable
    /\ lock' = t
    /\ Goto(t, CASE pc[t] = "ld_acquire" -> "ld_isfile"
                 [] pc[t] = "sv_acquire" -> "sv_open"
                 [] OTHER -> "cl_clear")
    /\ UNCHANGED <<tsess, hnd, flk, terr, file>>
    /\ UNCHANGED sharedvars

\* lock.release() in the finally clause, lines 176, 190, 201
Release(t) ==
    /\ pc[t] \in {"ld_release", "sv_release", "cl_release"}
    /\ lock' = Free
    /\ Goto(t, "idle")
    /\ UNCHANGED <<tsess, hnd, flk, terr, file>>
    /\ UNCHANGED sharedvars

\* load, line 158
LdIsFile(t) ==
    /\ pc[t] = "ld_isfile"
    /\ Goto(t, IF file[Path(t)].exists THEN "ld_stat" ELSE "ld_isfile2")
    /\ UNCHANGED <<lock, tsess, hnd, flk, terr, file>>
    /\ UNCHANGED sharedvars

\* load, lines 159-163
LdStat(t) ==
    /\ pc[t] = "ld_stat"
    /\ IF file[Path(t)].exists
       THEN /\ SetData(t, IF Expired(file[Path(t)], now) THEN EmptyDict
                          ELSE tsess[t].data)
            /\ Goto(t, "ld_isfile2")
            /\ UNCHANGED terr
       ELSE /\ ThrowTo(t, "FileNotFoundError", "ld_release")
            /\ UNCHANGED tsess
    /\ UNCHANGED <<lock, hnd, flk, file>>
    /\ UNCHANGED sharedvars

\* load, line 165
LdIsFile2(t) ==
    /\ pc[t] = "ld_isfile2"
    /\ Goto(t, IF file[Path(t)].exists THEN "ld_open" ELSE "ld_clear")
    /\ UNCHANGED <<lock, tsess, hnd, flk, terr, file>>
    /\ UNCHANGED sharedvars

\* load, line 166
LdOpen(t) ==
    /\ pc[t] = "ld_open"
    /\ IF file[Path(t)].exists
       THEN /\ hnd' = [hnd EXCEPT ![t] = [sid |-> Path(t), pos |-> 1]]
            /\ Goto(t, "ld_flock")
            /\ UNCHANGED terr
       ELSE /\ ThrowTo(t, "FileNotFoundError", "ld_release")
            /\ UNCHANGED hnd
    /\ UNCHANGED <<lock, tsess, flk, file>>
    /\ UNCHANGED sharedvars

\* fcntl.flock(h, LOCK_EX), lines 167 and 183: waits for the advisory lock
Flock(t) ==
    /\ pc[t] \in {"ld_flock", "sv_flock"}
    /\ flk[hnd[t].sid] = Free
    /\ flk' = [flk EXCEPT ![hnd[t].sid] = t]
    /\ Goto(t, IF pc[t] = "ld_flock" THEN "ld_read" ELSE "sv_dump")
    /\ UNCHANGED <<lock, tsess, hnd, terr, file>>
    /\ UNCHANGED sharedvars

\* load, line 169: an exception leaves through the two finally clauses
LdRead(t) ==
    /\ pc[t] = "ld_read"
    /\ IF IsPickle(file[hnd[t].sid].content)
       THEN /\ SetData(t, DictUpdate(tsess[t].data, loads(file[hnd[t].sid].content)))
            /\ UNCHANGED terr
       ELSE /\ terr' = [terr EXCEPT ![t] = "UnpicklingError"]
            /\ UNCHANGED tsess
    /\ Goto(t, "ld_unflock")
    /\ UNCHANGED <<lock, hnd, flk, file>>
    /\ UNCHANGED sharedvars

\* fcntl.flock(h, LOCK_UN), lines 171 and 186
Unflock(t) ==
    /\ pc[t] \in {"ld_unflock", "sv_unflock"}
    /\ flk' = [flk EXCEPT ![hnd[t].sid] = Free]
    /\ Goto(t, IF pc[t] = "ld_unflock" THEN "ld_close" ELSE "sv_close")
    /\ UNCHANGED <<lock, tsess, hnd, terr, file>>
    /\ UNCHANGED sharedvars

\* closing a descriptor drops the advisory lock it still holds
Dropped(t) ==
    [s \in SIDs |-> IF flk[s] = t /\ hnd[t].sid = s THEN Free ELSE flk[s]]

\* h.close(), lines 172 and 189
Close(t) ==
    /\ pc[t] \in {"ld_close", "sv_close"}
    /\ hnd' = [hnd EXCEPT ![t] = NoHandle]
    /\ flk' = Dropped(t)
    /\ Goto(t, IF pc[t] = "ld_close" THEN "ld_release" ELSE "sv_release")
    /\ UNCHANGED <<lock, tsess, terr, file>>
    /\ UNCHANGED sharedvars

\* load, line 174
LdClear(t) ==
    /\ pc[t] = "ld_clear"
    /\ SetData(t, EmptyDict)
    /\ Goto(t, "ld_release")
    /\ UNCHANGED <<lock, hnd, flk, terr, file>>
    /\ UNCHANGED sharedvars

\* save, line 182: open(..., 'wb', 0) creates the file or truncates it
SvOpen(t) ==
    /\ pc[t] = "sv_open"
    /\ file' = [file EXCEPT ![Path(t)] =
                    [exists |-> TRUE, content |-> <<>>, mtime |-> now]]
    /\ hnd' = [hnd EXCEPT ![t] = [sid |-> Path(t), pos |-> 1]]
    /\ Goto(t, "sv_flock")
    /\ UNCHANGED <<lock, tsess, flk, terr>>
    /\ UNCHANGED sharedvars

\* save, line 184: pickle.dump writes the stream to the unbuffered file, one
\* piece per step
SvDump(t) ==
    /\ pc[t] = "sv_dump"
    /\ LET out == dumps(tsess[t].data)
           h == hnd[t]
       IN  /\ file' = [file EXCEPT ![h.sid] =
                          [exists |-> TRUE,
                           content |-> WriteAt(@.content, h.pos, out[h.pos]),
                           mtime |-> now]]
           /\ hnd' = [hnd EXCEPT ![t].pos = h.pos + 1]
           /\ Goto(t, IF h.pos = Len(out) THEN "sv_flush" ELSE "sv_dump")
    /\ UNCHANGED <<lock, tsess, flk, terr>>
    /\ UNCHANGED sharedvars

\* save, line 185: nothing is buffered
SvFlush(t) ==
    /\ pc[t] = "sv_flush"
    /\ Goto(t, "sv_unflock")
    /\ UNCHANGED <<lock, tsess, hnd, flk, terr, file>>
    /\ UNCHANGED sharedvars

\* clear, line 195
ClClear(t) ==
    /\ pc[t] = "cl_clear"
    /\ SetData(t, EmptyDict)
    /\ Goto(t, "cl_unlink")
    /\ UNCHANGED <<lock, hnd, flk, terr, file>>
    /\ UNCHANGED sharedvars

\* clear, lines 196-199
ClUnlink(t) ==
    /\ pc[t] = "cl_unlink"
    /\ file' = [file EXCEPT ![Path(t)] = FileClear(@).file]
    /\ terr' = [terr EXCEPT ![t] = FileClear(file[Path(t)]).err]
    /\ Goto(t, "cl_release")
    /\ UNCHANGED <<lock, tsess, hnd, flk>>
    /\ UNCHANGED sharedvars

\* the values the threads store
ThreadValues == {1}

\* a session file left by an earlier request at time 0
OldFile == FileSave(NoFile, DictSet(EmptyDict, 1, 1), 0)

\* every thread has constructed its Session over the File Store at some time
\* of the day, when a session either has no file or an old one
InitThreads ==
    /\ now \in 0..MaxTime
    /\ backend = "file"
    /\ file \in [SIDs -> {NoFile, OldFile}]
    /\ redis = [s \in SIDs |-> NoKey]
    /\ sess = [sid |-> "s1", data |-> EmptyDict]
    /\ last = [op |-> "construct", key |-> 0, dflt |-> None, ret |-> None,
               err |-> "none", at |-> 0, follows |-> FALSE]
    /\ lock = Free
    /\ pc = [t \in Threads |-> "idle"]
    /\ \E f \in [Threads -> SIDs] :
          tsess = [t \in Threads |->
                     [sid |-> f[t],
                      data |-> FileLoad(file[f[t]], EmptyDict, now).data]]
    /\ hnd = [t \in Threads |-> NoHandle]
    /\ flk = [s \in SIDs |-> Free]
    /\ terr = [t \in Threads |-> "none"]
    /\ rem = RemoteIdle

NextThreads ==
    \/ \E t \in Threads, k \in Keys, v \in ThreadValues : TSetItem(t, k, v)
    \/ \E t \in Threads, op \in {"ld", "sv", "cl"} : Call(t, op)
    \/ \E t \in Threads : Acquire(t)
    \/ \E t \in Threads : Release(t)
    \/ \E t \in Threads : LdIsFile(t)
    \/ \E t \in Threads : LdStat(t)
    \/ \E t \in Threads : LdIsFile2(t)
    \/ \E t \in Threads : LdOpen(t)
    \/ \E t \in Threads : Flock(t)
    \/ \E t \in Threads : LdRead(t)
    \/ \E t \in Threads : Unflock(t)
    \/ \E t \in Threads : Close(t)
    \/ \E t \in Threads : LdClear(t)
    \/ \E t \in Threads : SvOpen(t)
    \/ \E t \in Threads : SvDump(t)
    \/ \E t \in Threads : SvFlush(t)
    \/ \E t \in Threads : ClClear(t)
    \/ \E t \in Threads : ClUnlink(t)

SpecThreads == InitThreads /\ [][NextThreads]_vars

\* ------------------------------------------------- a second process
\* Another process of the application runs SessionFile.save on a session of
\* its own.  Its threading.Lock is its own, so nothing of this process makes
\* it wait there; the session files and their advisory locks are shared.
Remote == "remote"

RemoteDicts == {EmptyDict, DictSet(EmptyDict, 1, 1)}

procvars == <<now, backend, redis, sess, last, lock, pc, tsess, hnd, terr>>

\* save, lines 179-180, in the other process
RCall(s, d) ==
    /\ rem.pc = "idle"
    /\ rem' = [pc |-> "sv_open", sid |-> s, pos |-> 0, data |-> d]
    /\ UNCHANGED <<file, flk>>
    /\ UNCHANGED procvars

\* save, line 182, in the other process
ROpen ==
    /\ rem.pc = "sv_open"
    /\ file' = [file EXCEPT ![rem.sid] =
                    [exists |-> TRUE, content |-> <<>>, mtime |-> now]]
    /\ rem' = [rem EXCEPT !.pc = "sv_flock", !.pos = 1]
    /\ UNCHANGED flk
    /\ UNCHANGED procvars

\* save, line 183, in the other process
RFlock ==
    /\ rem.pc = "sv_flock"
    /\ flk[rem.sid] = Free
    /\ flk' = [flk EXCEPT ![rem.sid] = Remote]
    /\ rem' = [rem EXCEPT !.pc = "sv_dump"]
    /\ UNCHANGED file
    /\ UNCHANGED procvars

\* save, line 184, in the other process
RDump ==
    /\ rem.pc = "sv_dump"
    /\ LET out == dumps(rem.data)
       IN  /\ file' = [file EXCEPT ![rem.sid] =
                          [exists |-> TRUE,
                           content |-> WriteAt(@.content, rem.pos, out[rem.pos]),
                           mtime |-> now]]
           /\ rem' = [rem EXCEPT !.pos = @ + 1,
                                 !.pc = IF rem.pos = Len(out) THEN "sv_unflock"
                                        ELSE "sv_dump"]
    /\ UNCHANGED flk
    /\ UNCHANGED procvars

\* save, lines 185-186, in the other process
RUnflock ==
    /\ rem.pc = "sv_unflock"
    /\ flk' = [flk EXCEPT ![rem.sid] = Free]
    /\ rem' = [rem EXCEPT !.pc = "sv_close"]
    /\ UNCHANGED file
    /\ UNCHANGED procvars

\* save, lines 188-190, in the other process
RClose ==
    /\ rem.pc = "sv_close"
    /\ rem' = RemoteIdle
    /\ UNCHANGED <<file, flk>>
    /\ UNCHANGED procvars

\* the statements of the three methods
Stmt(t) ==
    \/ Release(t) \/ LdIsFile(t) \/ LdStat(t) \/ LdIsFile2(t) \/ LdOpen(t)
    \/ Flock(t) \/ LdRead(t) \/ Unflock(t) \/ Close(t) \/ LdClear(t)
    \/ SvOpen(t) \/ SvDump(t) \/ SvFlush(t) \/ ClClear(t) \/ ClUnlink(t)

\* the thread of this process that is followed next to the other process
Local == "t1"

NextProcs ==
    \/ \E k \in Keys, v \in ThreadValues : TSetItem(Local, k, v)
    \/ \E op \in {"ld", "sv", "cl"} : Call(Local, op)
    \/ Acquire(Local)
    \/ Stmt(Local)
    \/ \E s \in SIDs, d \in RemoteDicts : RCall(s, d)
    \/ ROpen
    \/ RFlock
    \/ RDump
    \/ RUnflock
    \/ RClose

SpecProcs == InitThreads /\ [][NextProcs]_vars

\* --------------------------------------- clients of the cache server
\* Each thread owns one Session over a SessionRedis backend; a step is one
\* command sent to the server.  The server runs each command atomically and
\* nothing else orders the commands of different clients.
redisvars == <<backend, file, sess, last, lock, hnd, flk, rem>>

\* the client calls load(), save() or clear() of its SessionRedis
RedisCall(c, op) ==
    /\ pc[c] = "idle"
    /\ op \in {"rl_exists", "rs_set", "rc_clear"}
    /\ Goto(c, op)
    /\ terr' = [terr EXCEPT ![c] = "none"]
    /\ UNCHANGED <<now, redis, tsess>>
    /\ UNCHANGED redisvars

\* load, line 127: EXISTS
RlExists(c) ==
    /\ pc[c] = "rl_exists"
    /\ Goto(c, IF redis[Path(c)].exists THEN "rl_get" ELSE "idle")
    /\ UNCHANGED <<now, redis, tsess, terr>>
    /\ UNCHANGED redisvars

\* load, line 128: GET answers None for a key that is not there, and
\* pickle.loads(None) raises TypeError
RlGet(c) ==
    /\ pc[c] = "rl_get"
    /\ IF redis[Path(c)].exists
       THEN /\ SetData(c, RedisLoad(redis[Path(c)], tsess[c].data).data)
            /\ terr' = [terr EXCEPT ![c] =
                           RedisLoad(redis[Path(c)], tsess[c].data).err]
       ELSE /\ terr' = [terr EXCEPT ![c] = "TypeError"]
            /\ UNCHANGED tsess
    /\ Goto(c, "idle")
    /\ UNCHANGED <<now, redis>>
    /\ UNCHANGED redisvars

\* save, lines 131-132: SET, for a dict that is not empty
RsSet(c) ==
    /\ pc[c] = "rs_set"
    /\ IF RedisSaveWrites(tsess[c].data)
       THEN /\ redis' = [redis EXCEPT ![Path(c)] = RedisSet(@, dumps(tsess[c].data))]
            /\ Goto(c, "rs_expire")
       ELSE /\ Goto(c, "idle")
            /\ UNCHANGED redis
    /\ UNCHANGED <<now, tsess, terr>>
    /\ UNCHANGED redisvars

\* save, line 133: EXPIRE
RsExpire(c) ==
    /\ pc[c] = "rs_expire"
    /\ redis' = [redis EXCEPT ![Path(c)] = RedisExpire(@, Expire)]
    /\ Goto(c, "idle")
    /\ UNCHANGED <<now, tsess, terr>>
    /\ UNCHANGED redisvars

\* clear, line 136
RcClear(c) ==
    /\ pc[c] = "rc_clear"
    /\ SetData(c, EmptyDict)
    /\ Goto(c, "rc_delete")
    /\ UNCHANGED <<now, redis, terr>>
    /\ UNCHANGED redisvars

\* clear, lines 137-140: DEL
RcDelete(c) ==
    /\ pc[c] = "rc_delete"
    /\ redis' = [redis EXCEPT ![Path(c)] = RedisDelete(@)]
    /\ Goto(c, "idle")
    /\ UNCHANGED <<now, tsess, terr>>
    /\ UNCHANGED redisvars

\* every client has constructed its Session when no key existed
InitRedis ==
    /\ now = 0
    /\ backend = "redis"
    /\ file = [s \in SIDs |-> NoFile]
    /\ redis = [s \in SIDs |-> NoKey]
    /\ sess = [sid |-> "s1", data |-> EmptyDict]
    /\ last = [op |-> "construct", key |-> 0, dflt |-> None, ret |-> None,
               err |-> "none", at |-> 0, follows |-> FALSE]
    /\ lock = Free
    /\ pc = [t \in Threads |-> "idle"]
    /\ tsess \in [Threads -> [sid : SIDs, data : {EmptyDict}]]
    /\ hnd = [t \in Threads |-> NoHandle]
    /\ flk = [s \in SIDs |-> Free]
    /\ terr = [t \in Threads |-> "none"]
    /\ rem = RemoteIdle

NextRedis ==
    \/ \E c \in Threads, k \in Keys, v \in ThreadValues : TSetItem(c, k, v)
    \/ \E c \in Threads, op \in {"rl_exists", "rs_set", "rc_clear"} :
          RedisCall(c, op)
    \/ \E c \in Threads : RlExists(c)
    \/ \E c \in Threads : RlGet(c)
    \/ \E c \in Threads : RsSet(c)
    \/ \E c \in Threads : RsExpire(c)
    \/ \E c \in Threads : RcClear(c)
    \/ \E c \in Threads : RcDelete(c)
    \/ Tick

SpecRedis == InitRedis /\ [][NextRedis]_vars

\* ------------------------------------------------------------- I/O errors
\* The statement a thread is at raises OSError instead of doing its work, and
\* control goes where the try/finally clauses of the method take it.
\*   load: stat, open and flock (lines 160, 166, 167) are inside the outer try
\*         only; the read is inside the inner try; an error of the inner
\*         finally (lines 171, 172) still reaches the outer finally.
\*   save: everything after open leaves through the one finally clause, which
\*         closes the file (line 189) and then releases the lock (line 190);
\*         an error of h.close() leaves the clause before line 190.
\*   clear: an error of unlink is swallowed (lines 198, 199).
\* A handle that is dropped without close() is closed when it is collected.
Fail(t) ==
    /\ pc[t] \in {"ld_stat", "ld_open", "ld_flock", "ld_read", "ld_unflock",
                  "ld_close", "sv_open", "sv_flock", "sv_dump", "sv_flush",
                  "sv_unflock", "sv_close", "cl_unlink"}
    /\ Goto(t, CASE pc[t] \in {"ld_stat", "ld_open", "ld_flock", "ld_unflock",
                               "ld_close"} -> "ld_release"
                 [] pc[t] = "ld_read" -> "ld_unflock"
                 [] pc[t] = "sv_open" -> "sv_release"
                 [] pc[t] \in {"sv_flock", "sv_dump", "sv_flush", "sv_unflock"}
                       -> "sv_close"
                 [] pc[t] = "sv_close" -> "idle"
                 [] OTHER -> "cl_release")
    /\ terr' = [terr EXCEPT ![t] = IF pc[t] = "cl_unlink" THEN @ ELSE "OSError"]
    /\ hnd' = IF pc[t] \in {"ld_flock", "ld_unflock", "ld_close", "sv_close"}
              THEN [hnd EXCEPT ![t] = NoHandle] ELSE hnd
    /\ flk' = IF pc[t] \in {"ld_flock", "ld_unflock", "ld_close", "sv_close"}
              THEN Dropped(t) ELSE flk
    /\ UNCHANGED <<lock, tsess, file>>
    /\ UNCHANGED sharedvars

NextFaults ==
    \/ NextThreads
    \/ \E t \in Threads : Fail(t)

SpecFaults == InitThreads /\ [][NextFaults]_vars

\* every statement of a method that has been called is eventually executed,
\* and a thread that waits for the lock gets it if the lock keeps coming free
Step(t) == Stmt(t) \/ Fail(t)

SpecFair ==
    /\ SpecFaults
    /\ \A t \in Threads : WF_vars(Step(t)) /\ SF_vars(Acquire(t))

TypeOK ==
    /\ now \in 0..MaxTime
    /\ sess.data \in Dicts

\* ================================================================= claims
\* the step is a call of method op (Tick alone moves the clock and it leaves
\* the record of the last call alone)
IsCall(op) == last'.op = op /\ now' = now

\* C1: a File Store load() that finds the session file older than expire
\* seconds leaves the in-memory mapping empty, whatever the file contains.
C1_ExpiredLoadYieldsEmpty ==
    [][(/\ IsCall("load")
        /\ backend = "file"
        /\ file[sess.sid].exists
        /\ Expired(file[sess.sid], now))
       => sess'.data = EmptyDict]_vars

\* C2: File Store round trip.  A Session whose data is M saves; a fresh
\* Session constructed next with the same id, no later than expire seconds
\* after the save, holds exactly M.
C2_FileRoundTrip ==
    [][(/\ backend = "file"
        /\ last.op = "save"
        /\ IsCall("construct")
        /\ sess'.sid = sess.sid
        /\ now - last.at <= Expire)
       => (last'.err = "none" /\ sess'.data = sess.data)]_vars

C2_Witness ==
    /\ backend = "file"
    /\ last.op = "construct"
    /\ last.follows
    /\ DictLen(sess.data) = 2
    /\ file[sess.sid].exists
    /\ now - file[sess.sid].mtime = Expire

\* C3 as stated: Shared-Cache round trip for every M, the empty one included,
\* and whatever the key held before the save.
C3_RedisRoundTripAnyM ==
    [][(/\ backend = "redis"
        /\ last.op = "save"
        /\ IsCall("construct")
        /\ sess'.sid = sess.sid
        /\ now - last.at < Expire)
       => sess'.data = sess.data]_vars

\* C3 amended: Shared-Cache round trip for every non-empty M; a save of the
\* empty M writes nothing, so the fresh Session holds what the key still
\* holds, which is the empty mapping only when the key is absent.
C3_RedisRoundTrip ==
    [][(/\ backend = "redis"
        /\ last.op = "save"
        /\ IsCall("construct")
        /\ sess'.sid = sess.sid
        /\ now - last.at < Expire)
       => /\ last'.err = "none"
          /\ sess.data # EmptyDict => sess'.data = sess.data
          /\ (sess.data = EmptyDict /\ ~redis[sess.sid].exists)
                => sess'.data = EmptyDict
          /\ (sess.data = EmptyDict /\ redis[sess.sid].exists)
                => (sess'.data # EmptyDict /\ dumps(sess'.data) = redis[sess.sid].val)]_vars

C3_Witness ==
    /\ backend = "redis"
    /\ last.op = "construct"
    /\ last.follows
    /\ DictLen(sess.data) = 2
    /\ redis[sess.sid].exists
    /\ redis[sess.sid].ttl = Expire

\* C5: a File Store save() of an empty mapping writes: afterwards the session
\* file exists and holds a snapshot of the empty mapping, whatever it held.
C5_FileSaveEmptyWrites ==
    [][(IsCall("save") /\ backend = "file" /\ sess.data = EmptyDict)
       => /\ file'[sess.sid].exists
          /\ IsPickle(file'[sess.sid].content)
          /\ loads(file'[sess.sid].content) = EmptyDict
          /\ file'[sess.sid].mtime = now]_vars

C5_Witness ==
    /\ backend = "file"
    /\ last.op = "save"
    /\ last.at = now
    /\ now > 0
    /\ sess.data = EmptyDict
    /\ file[sess.sid].exists
    /\ file[sess.sid].mtime = now

\* C6 as stated: a File Store save() of an empty mapping is skipped and the
\* session file is left as it was.
C6_FileSaveEmptySkipped ==
    [][(IsCall("save") /\ backend = "file" /\ sess.data = EmptyDict)
       => file' = file]_vars

\* C6 amended: a File Store save() persists the mapping whether or not it is
\* empty: the session file then holds the snapshot of data alone, its
\* modification time is the time of the save, and no other file changes.
C6_FileSaveAlwaysPersists ==
    [][(IsCall("save") /\ backend = "file")
       => /\ file'[sess.sid].exists
          /\ IsPickle(file'[sess.sid].content)
          /\ loads(file'[sess.sid].content) = sess.data
          /\ file'[sess.sid].mtime = now
          /\ \A s \in SIDs \ {sess.sid} : file'[s] = file[s]]_vars

C6_Witness ==
    /\ backend = "file"
    /\ last.op = "save"
    /\ last.at = now
    /\ sess.data = EmptyDict
    /\ file[sess.sid].content = <<STOP>>
    /\ \E s \in SIDs \ {sess.sid} : file[s].exists /\ file[s].content # <<STOP>>

\* C7: a Shared-Cache save() of an empty mapping writes nothing: existence,
\* value and TTL of every key are as before.
C7_RedisSaveEmptyNoWrite ==
    [][(IsCall("save") /\ backend = "redis" /\ sess.data = EmptyDict)
       => redis' = redis]_vars

C7_Witness ==
    /\ backend = "redis"
    /\ last.op = "save"
    /\ last.at = now
    /\ sess.data = EmptyDict
    /\ redis[sess.sid].exists
    /\ redis[sess.sid].ttl < Expire

\* C8: with either backend every clear(), a second one in a row included,
\* returns normally and leaves the mapping empty and the session's file or
\* key absent.
C8_ClearTwice ==
    [][(IsCall("clear") /\ backend # "none")
       => /\ last'.err = "none"
          /\ sess'.data = EmptyDict
          /\ ~file'[sess.sid].exists
          /\ ~redis'[sess.sid].exists]_vars

C8_Witness ==
    /\ backend = "file"
    /\ last.op = "clear"
    /\ last.follows
    /\ last.err = "none"
    /\ ~file[sess.sid].exists

\* C9: get(key, default) of an absent key returns the default, raises nothing
\* and leaves data alone; an item read of an absent key raises KeyError; for a
\* present key both return the stored value.
C9_GetVersusItem ==
    [][/\ IsCall("get") =>
            /\ sess' = sess
            /\ last'.err = "none"
            /\ last'.ret = IF last'.key \in DOMAIN sess.data
                           THEN sess.data[last'.key] ELSE last'.dflt
       /\ IsCall("getitem") =>
            /\ sess' = sess
            /\ IF last'.key \in DOMAIN sess.data
               THEN last'.err = "none" /\ last'.ret = sess.data[last'.key]
               ELSE last'.err = "KeyError"]_vars

C9_Witness ==
    /\ last.op = "get"
    /\ last.key \notin DOMAIN sess.data
    /\ last.dflt # None
    /\ last.ret = last.dflt
    /\ sess.data # EmptyDict

\* C10: without a backend load(), save() and clear() raise nothing, touch no
\* storage and leave the mapping as it was.
C10_NoBackendNoOp ==
    [][(backend = "none" /\ (IsCall("load") \/ IsCall("save") \/ IsCall("clear")))
       => /\ last'.err = "none"
          /\ sess' = sess
          /\ file' = file
          /\ redis' = redis]_vars

C10_Witness ==
    /\ backend = "none"
    /\ last.op = "clear"
    /\ last.follows
    /\ sess.data # EmptyDict

\* C4: at most one thread of the process is inside the critical section of a
\* File Store load(), save() or clear(), whatever the sessions; so no two
\* threads have a session file open at once, and a session file that no
\* thread is writing holds exactly one complete snapshot.
InCritical(t) == pc[t] \notin {"idle", "ld_acquire", "sv_acquire", "cl_acquire"}

Writing(t, s) == hnd[t].sid = s /\ pc[t] \in {"sv_flock", "sv_dump"}

C4_MutualExclusion ==
    /\ \A t, u \in Threads : (InCritical(t) /\ InCritical(u)) => t = u
    /\ \A t \in Threads : InCritical(t) => lock = t
    /\ \A t, u \in Threads : (hnd[t] # NoHandle /\ hnd[u] # NoHandle) => t = u
    /\ \A s \in SIDs :
          (file[s].exists /\ \A t \in Threads : ~Writing(t, s))
             => IsPickle(file[s].content)

C4_Witness ==
    \E t, u \in Threads :
       /\ pc[t] = "sv_dump"
       /\ hnd[t].pos = 2
       /\ ~IsPickle(file[Path(t)].content)
       /\ pc[u] = "sv_acquire"
       /\ Path(u) # Path(t)
       /\ file[Path(u)].exists

\* C11: load() is idempotent with either backend: a load() that follows a
\* load(), with the persisted state the same and the file on the same side of
\* its expiry at both calls, leaves the mapping and the persisted state as
\* the first load() left them.
C11_LoadIdempotent ==
    [][(/\ last.op = "load"
        /\ last.err = "none"
        /\ IsCall("load")
        /\ backend = "file" =>
              (Expired(file[sess.sid], last.at) <=> Expired(file[sess.sid], now)))
       => /\ last'.err = "none"
          /\ sess' = sess
          /\ file' = file
          /\ redis' = redis]_vars

C11_Witness ==
    /\ backend = "file"
    /\ last.op = "load"
    /\ last.follows
    /\ last.at = now
    /\ now > 0
    /\ file[sess.sid].exists
    /\ DictLen(sess.data) = 2

\* C13: a File Store load() never creates, deletes or modifies a session
\* file; a file found older than expire seconds is still there afterwards
\* with its content and modification time.
C13_LoadLeavesFile ==
    [][((IsCall("load") \/ IsCall("construct")) /\ backend = "file")
       => file' = file]_vars

C13_Witness ==
    /\ backend = "file"
    /\ last.op = "load"
    /\ last.at = now
    /\ file[sess.sid].exists
    /\ Expired(file[sess.sid], now)
    /\ file[sess.sid].content # <<STOP>>

\* C18: a File Store load() that finds the file and finds it not expired is
\* a merge-update: every key of the snapshot takes the stored value, every
\* other key of the mapping keeps its value, and there are no other keys.
C18_FileLoadMerges ==
    [][(/\ IsCall("load")
        /\ backend = "file"
        /\ file[sess.sid].exists
        /\ ~Expired(file[sess.sid], now))
       => LET snap == loads(file[sess.sid].content)
          IN  /\ last'.err = "none"
              /\ DOMAIN sess'.data = (DOMAIN sess.data) \cup (DOMAIN snap)
              /\ \A k \in DOMAIN snap : sess'.data[k] = snap[k]
              /\ \A k \in (DOMAIN sess.data) \ (DOMAIN snap) :
                    sess'.data[k] = sess.data[k]]_vars

C18_Witness ==
    /\ backend = "file"
    /\ last.op = "load"
    /\ last.at = now
    /\ file[sess.sid].exists
    /\ ~Expired(file[sess.sid], now)
    /\ DictLen(loads(file[sess.sid].content)) = 1
    /\ DictLen(sess.data) = 2

\* C19: a Shared-Cache load() is a merge that destroys nothing: with the key
\* present every key of the snapshot takes the stored value and every other
\* key of the mapping is kept; with the key absent the mapping is unchanged.
C19_RedisLoadMerges ==
    [][(IsCall("load") /\ backend = "redis")
       => /\ last'.err = "none"
          /\ redis[sess.sid].exists =>
                LET snap == loads(redis[sess.sid].val)
                IN  /\ DOMAIN sess'.data = (DOMAIN sess.data) \cup (DOMAIN snap)
                    /\ \A k \in DOMAIN snap : sess'.data[k] = snap[k]
                    /\ \A k \in (DOMAIN sess.data) \ (DOMAIN snap) :
                          sess'.data[k] = sess.data[k]
          /\ ~redis[sess.sid].exists => sess'.data = sess.data]_vars

C19_Witness ==
    /\ backend = "redis"
    /\ last.op = "load"
    /\ last.at = now
    /\ ~redis[sess.sid].exists
    /\ sess.data # EmptyDict

\* C20: a File Store load() that finds no session file empties the mapping
\* and creates no file.
C20_FileLoadAbsentEmpties ==
    [][(IsCall("load") /\ backend = "file" /\ ~file[sess.sid].exists)
       => /\ last'.err = "none"
          /\ sess'.data = EmptyDict
          /\ file' = file]_vars

C20_Witness ==
    /\ backend = "file"
    /\ last.op = "load"
    /\ last.at = now
    /\ ~file[sess.sid].exists
    /\ sess.data = EmptyDict
    /\ \E s \in SIDs : file[s].exists

\* C12: whenever a File Store load(), save() or clear() has finished, by
\* returning or by raising, the process-wide lock is released: the lock is
\* held only by a thread that is inside one of the three methods.
C12_LockHeldOnlyInside ==
    \A t \in Threads : lock = t => InCritical(t)

\* C17: under fair scheduling every File Store load(), save() or clear() that
\* a thread has called gets the lock and completes, whatever raises.
C17_EveryCallCompletes ==
    \A t \in Threads : (pc[t] # "idle") ~> (pc[t] = "idle")

\* C14: across processes, a load() that holds the exclusive advisory lock on
\* a session file deserializes a complete snapshot, never an empty, truncated
\* or partly written file, however a save() of the same session in another
\* process interleaves.
C14_LockedReadSeesSnapshot ==
    \A t \in Threads :
       (pc[t] = "ld_read" /\ flk[hnd[t].sid] = t)
          => IsPickle(file[hnd[t].sid].content)

\* C15: with the cache server reachable a Shared-Cache load() returns
\* normally, whatever another client's clear() or the expiry of the key does
\* between the existence check and the fetch.
C15_RedisLoadReturns ==
    backend = "redis" => \A c \in Threads : terr[c] = "none"

SaveInFlight(s) == \E c \in Threads : pc[c] = "rs_expire" /\ Path(c) = s

\* what C16 says of the order of the two commands and of the TTL of the
\* keys that no save() is in the middle of
C16_OrderAndTTL(c) ==
    /\ (pc[c] = "rs_set" /\ pc'[c] = "rs_expire")
          => redis'[Path(c)] =
                [exists |-> TRUE, val |-> dumps(tsess[c].data), ttl |-> -1]
    /\ \A s \in SIDs :
          (redis'[s].exists /\ ~SaveInFlight(s)')
             => redis'[s].ttl \in 1..Expire

====
